---- MODULE Spec2Model ----
(***************************************************************************)
(* Model of the Eko (1985) stand growth engine: EkoStand construction,     *)
(* the metrics refresh, thin() and grow(), for the two EkoStand classes    *)
(* of the repository (eko1985/stand.py, "root", and                        *)
(* src/eko1985/stand.py, "pkg").                                           *)
(*                                                                         *)
(* Numbers.  Python floats are modelled as exact rationals <<n, d>> with   *)
(* d > 0 and gcd(|n|, d) = 1.                                              *)
(*                                                                         *)
(* Diameters.  A quadratic mean diameter d (cm) is carried as the basal    *)
(* area of the mean tree, pi * (d/200)^2 (m2), which is what every use of  *)
(* a diameter in stand.py computes from it.  d |-> pi*(d/200)^2 is a       *)
(* strictly increasing bijection on d >= 0, so d = 0, d > 0 and equality   *)
(* of diameters are preserved; 0.9*d becomes 81/100 of the carried value.  *)
(*                                                                         *)
(* Regressions.  getVolume is exp() of a linear form in logs; its value is *)
(* kept symbolic as the record of the arguments the formula reads.         *)
(* getMortality and getBAI5 produce numbers that enter the arithmetic of   *)
(* grow(); their values are drawn from finite sets inside the range the    *)
(* code guarantees (crowding clamped to [0,1], other a small positive      *)
(* constant, BAI5 = exp(..) > 0).                                          *)
(***************************************************************************)
EXTENDS Integers, Sequences, FiniteSets, TLC

VARIABLES impl, Site, parts, totals, call, steps

vars == <<impl, Site, parts, totals, call, steps>>

\* Number of thin()/grow() calls explored after construction.
MaxSteps == 2

----------------------------------------------------------------------------
\* Exact rational arithmetic standing in for float arithmetic.

\* The operators below take their arguments through a function application,
\* which evaluates them once.

Abs(n) == IF n < 0 THEN -n ELSE n

RECURSIVE GCD(_, _)
GCD(a, b) == IF b = 0 THEN a ELSE GCD(b, a % b)

Rat == Int \X Int

NormF[p \in Int \X Int] ==
    LET g == GCD(Abs(p[1]), p[2]) IN <<p[1] \div g, p[2] \div g>>

Norm(n, d) == NormF[<<n, d>>]

Zero == <<0, 1>>
One == <<1, 1>>
R(n) == <<n, 1>>
Frac(n, d) == Norm(n, d)

RNeg(x) == <<-x[1], x[2]>>

RAddF[p \in Rat \X Rat] ==
    LET x == p[1]
        y == p[2]
        g == GCD(x[2], y[2])
    IN Norm(x[1] * (y[2] \div g) + y[1] * (x[2] \div g), x[2] * (y[2] \div g))

RAdd(x, y) == RAddF[<<x, y>>]

RSub(x, y) == RAddF[<<x, RNeg(y)>>]

RMulF[p \in Rat \X Rat] ==
    LET x == p[1]
        y == p[2]
    IN IF x[1] = 0 \/ y[1] = 0 THEN Zero
       ELSE LET g1 == GCD(Abs(x[1]), y[2])
                g2 == GCD(Abs(y[1]), x[2])
            IN <<(x[1] \div g1) * (y[1] \div g2), (x[2] \div g2) * (y[2] \div g1)>>

RMul(x, y) == RMulF[<<x, y>>]

RInv(x) == IF x[1] > 0 THEN <<x[2], x[1]>> ELSE <<-x[2], -x[1]>>

RDiv(x, y) == RMulF[<<x, RInv(y)>>]

RPos(x) == x[1] > 0
RNonNeg(x) == x[1] >= 0
RLe(x, y) == x[1] * y[2] <= y[1] * x[2]
RLt(x, y) == x[1] * y[2] < y[1] * x[2]

RMaxF[p \in Rat \X Rat] == IF RLe(p[1], p[2]) THEN p[2] ELSE p[1]
RMinF[p \in Rat \X Rat] == IF RLe(p[1], p[2]) THEN p[1] ELSE p[2]

RMax(x, y) == RMaxF[<<x, y>>]
RMin(x, y) == RMinF[<<x, y>>]

----------------------------------------------------------------------------
\* utils.py

\* qmd_cm(BA, stems): 0 when BA <= 0 or stems <= 0, else
\* sqrt(BA*40000/(pi*stems)), carried as pi*(qmd/200)^2 = BA/stems.
qmd_cmF[p \in Rat \X Rat] ==
    IF RLe(p[1], Zero) \/ RLe(p[2], Zero) THEN Zero ELSE RDiv(p[1], p[2])

qmd_cm(BA, stems) == qmd_cmF[<<BA, stems>>]

\* A list comprehension, built once: the function as a tuple of its values.
Tup(f) == <<>> \o f

RECURSIVE SumSeq(_)
SumSeq(s) == IF s = <<>> THEN Zero ELSE RAdd(SumSeq(SubSeq(s, 1, Len(s) - 1)), s[Len(s)])

\* safe_sum over a list comprehension: total = 0.0; total += float(v)
safe_sum(s) == SumSeq(s)

\* [f(q) for q in ps if q is not ps[i]]
Others(s, i) == Tup([k \in 1..(Len(s) - 1) |-> IF k < i THEN s[k] ELSE s[k + 1]])

----------------------------------------------------------------------------
\* enums.py: Tradslag (the enum's values; a-umlaut and o-umlaut written a, o)

Tall == "Tall"
Gran == "Gran"
Bjork == "Bjork"
Bok == "Bok"
Ek == "Ek"
OvLov == "Ov.lov"

Tradslag == {Tall, Gran, Bjork, Bok, Ek, OvLov}

----------------------------------------------------------------------------
\* site.py: EkoStandSite

\* An argument left at its default None, a number passed by the caller
\* (a bool as 0 or 1), a member of one of the enums with its .value, and
\* the value of a Leijon conversion: exp(..) / 10 of the height h.
None == [kind |-> "None", fn |-> "", value |-> 0]
Given(h) == [kind |-> "given", fn |-> "", value |-> h]
Member(enum, v) == [kind |-> "enum", fn |-> enum, value |-> v]
Derived(fn, h) == [kind |-> "exp", fn |-> fn, value |-> h]

\* The region argument: None, a RegionSE member (name is its .value), a
\* string, or another object (name is its str()).
NoRegion == [kind |-> "None", name |-> ""]
RegionMember(v) == [kind |-> "RegionSE", name |-> v]
RegionStr(str) == [kind |-> "str", name |-> str]
RegionObject(str) == [kind |-> "object", name |-> str]

\* Region normalization; S-O-umlaut-DRA is written SODRA.
NormalizeRegion(region) ==
    IF region.kind = "RegionSE" THEN region.name
    ELSE IF region.kind = "str" /\ region.name \in {"North", "Central", "South"}
         THEN region.name
    ELSE IF region.kind = "str" /\ region.name \in {"NORRA", "MELLERSTA", "SODRA"}
         THEN CASE region.name = "NORRA" -> "North"
                [] region.name = "MELLERSTA" -> "Central"
                [] region.name = "SODRA" -> "South"
    ELSE IF region.kind = "None" THEN "South"
    ELSE region.name

\* float(swedish) if swedish is not None, else float(english) if english is
\* not None, else 0.0
PreferSwedishFloat(swedish, english) ==
    IF swedish # None THEN swedish.value
    ELSE IF english # None THEN english.value
    ELSE 0

\* bool(swedish) if swedish is not None else bool(english)
PreferSwedishBool(swedish, english) ==
    IF swedish # None THEN swedish.value # 0 ELSE english.value # 0

\* _set_fieldlayer_and_vegcode: the vegcode mapping, in halves
VegcodeMapping ==
    [c \in 1..18 |->
        CASE c = 1 -> Frac(8, 2)  [] c = 2 -> Frac(5, 2)  [] c = 3 -> Frac(4, 2)
          [] c = 4 -> Frac(6, 2)  [] c = 5 -> Frac(5, 2)  [] c = 6 -> Frac(4, 2)
          [] c = 7 -> Frac(6, 2)  [] c = 8 -> Frac(5, 2)  [] c = 9 -> Frac(3, 2)
          [] c = 10 -> Frac(-6, 2) [] c = 11 -> Frac(-6, 2) [] c = 12 -> Frac(2, 2)
          [] c = 13 -> Frac(0, 2) [] c = 14 -> Frac(-1, 2) [] c = 15 -> Frac(-6, 2)
          [] c = 16 -> Frac(-10, 2) [] c = 17 -> Frac(-1, 2) [] c = 18 -> Frac(-2, 2)]

\* _set_fieldlayer_and_vegcode(vegetation_code, latitude): the two field-layer
\* flags and vegcode; an enum member or None is in no tuple and is no int.
FieldLayerAndVegcode(vegetation_code, latitude) ==
    LET isInt == vegetation_code.kind = "given"
        code == vegetation_code.value
    IN [Bilberry_or_Cowberry |-> isInt /\ code \in {13, 14},
        HerbsGrassesNoFieldLayer |->
            isInt /\ (code \in {1, 2, 3, 4, 5, 6, 8, 9} \/ (code = 7 /\ latitude < 60)),
        vegcode |-> IF isInt /\ code \in DOMAIN VegcodeMapping
                    THEN VegcodeMapping[code] ELSE Zero]

\* __Leijon_Pine_to_Spruce / __Leijon_Spruce_to_Pine: a warning when the
\* height is outside the material (8..30 m for pine, 8..33 m for spruce),
\* then math.log(H100 * 10), which raises ValueError ("math domain error")
\* unless H100 > 0, then exp(..) / 10.
LeijonWarns(h, upper) == h.value < 8 \/ h.value > upper

LeijonRaises(h) == h.value <= 0

Leijon_Pine_to_Spruce(H100_Pine) == Derived("Leijon_Pine_to_Spruce", H100_Pine.value)

Leijon_Spruce_to_Pine(H100_Spruce) == Derived("Leijon_Spruce_to_Pine", H100_Spruce.value)

\* The keyword arguments of EkoStandSite at their defaults.
SiteDefaults ==
    [latitude |-> None, altitude |-> None, vegetation |-> None, soil_moisture |-> None,
     H100_Spruce |-> None, region |-> NoRegion, H100_Pine |-> None,
     fertilised |-> Given(0), thinned_5y |-> Given(0), thinned |-> Given(0),
     TAX77 |-> Given(0),
     latitud |-> None, hojd_moh |-> None, vegetation_ |-> None, markfuktighet |-> None,
     h100_gran |-> None, h100_tall |-> None, godslad |-> None,
     gallrad_senaste_5ar |-> None, gallrad |-> None, tax77 |-> None]

\* EkoStandSite.__init__(**kw); no site is made when it raises. The
\* warnings are those emitted before the call returned or raised.
EkoStandSite(kw) ==
    LET S == IF kw.h100_gran # None THEN kw.h100_gran ELSE kw.H100_Spruce
        P == IF kw.h100_tall # None THEN kw.h100_tall ELSE kw.H100_Pine
        latitude == PreferSwedishFloat(kw.latitud, kw.latitude)
        veg_in == IF kw.vegetation.kind = "enum" /\ kw.vegetation.fn = "VegetationsKod"
                  THEN Given(kw.vegetation.value) ELSE kw.vegetation
        layer == FieldLayerAndVegcode(veg_in, latitude)
        sm == IF kw.markfuktighet.kind = "enum" /\ kw.markfuktighet.fn = "MarkfuktighetKod"
              THEN Given(kw.markfuktighet.value) ELSE kw.soil_moisture
        raised == [region |-> NormalizeRegion(kw.region),
                   H100_Spruce |-> None, H100_Pine |-> None,
                   error |-> "ValueError", args |-> kw, warnings |-> {},
                   latitude |-> latitude,
                   altitude |-> PreferSwedishFloat(kw.hojd_moh, kw.altitude),
                   fertilised |-> PreferSwedishBool(kw.godslad, kw.fertilised),
                   thinned_5y |-> PreferSwedishBool(kw.gallrad_senaste_5ar, kw.thinned_5y),
                   thinned |-> PreferSwedishBool(kw.gallrad, kw.thinned),
                   TAX77 |-> PreferSwedishBool(kw.tax77, kw.TAX77),
                   Bilberry_or_Cowberry |-> layer.Bilberry_or_Cowberry,
                   HerbsGrassesNoFieldLayer |-> layer.HerbsGrassesNoFieldLayer,
                   vegcode |-> layer.vegcode,
                   DrySoil |-> sm = Given(1), WetSoil |-> sm = Given(5)]
    IN IF S = None /\ P = None THEN raised
       ELSE IF S = None
            THEN LET w == IF LeijonWarns(P, 30)
                          THEN {"SI Pine may be outside underlying material"} ELSE {}
                 IN IF LeijonRaises(P) THEN [raised EXCEPT !.warnings = w]
                    ELSE [raised EXCEPT !.H100_Pine = P,
                                        !.H100_Spruce = Leijon_Pine_to_Spruce(P),
                                        !.warnings = w, !.error = "none"]
       ELSE IF P = None
            THEN LET w == IF LeijonWarns(S, 33)
                          THEN {"SI Spruce may be outside underlying material."} ELSE {}
                 IN IF LeijonRaises(S) THEN [raised EXCEPT !.warnings = w]
                    ELSE [raised EXCEPT !.H100_Spruce = S,
                                        !.H100_Pine = Leijon_Spruce_to_Pine(S),
                                        !.warnings = w, !.error = "none"]
       ELSE [raised EXCEPT !.H100_Spruce = S, !.H100_Pine = P, !.error = "none"]

----------------------------------------------------------------------------
\* base.py: EkoStandPart

\* EkoStandPart.__init__ / __post_init__: BA, stems, age coerced to float,
\* QMD from (BA, stems), the other fields at their dataclass defaults.
NoVolume == [kind |-> "unset", tradslag |-> "", BA |-> Zero, QMD |-> Zero, age |-> 0,
             stems |-> Zero, HK |-> <<Zero, Zero, Zero>>, StandBA |-> Zero]

\* A difference of two volumes, end - start, kept as its two terms; an
\* attribute grow() has not assigned yet is NoIncrement.
NoIncrement == [set |-> FALSE, end |-> NoVolume, start |-> NoVolume]
VolumeDifference(end, start) == [set |-> TRUE, end |-> end, start |-> start]

EkoStandPart(sp, BA, stems, age) ==
    [tradslag |-> sp, BA |-> BA, stems |-> stems, age |-> age,
     QMD |-> qmd_cm(BA, stems),
     QMDOtherSpecies |-> Zero, BAOtherSpecies |-> Zero,
     HK |-> <<Zero, Zero, Zero>>,
     VOL |-> NoVolume, BAI5 |-> Zero,
     VOL0 |-> NoVolume,
     gross_volume_increment |-> NoIncrement, volume_increment |-> NoIncrement,
     stand |-> FALSE]

\* register_stand(stand): the cohort now has a stand (and its site)
register_stand(p) == [p EXCEPT !.stand = TRUE]

\* Variant without the check: the formula runs whatever self.stand is.
UncheckedStand(p) == "none"

\* The first statement of getMortality, getBAI5 and getVolume of every
\* species: `if self.stand is None: raise ValueError(..)`.
RequireStand(p) == IF p.stand THEN "none" ELSE "ValueError"

----------------------------------------------------------------------------
\* species.py: getVolume

\* exp(lnVolume + c): the regression's value, kept as the record of what the
\* formula reads. EkoBroadleaf outside North/Central also reads
\* self.stand.StandBA (species.py:1152); the others do not.
\*
\* Every formula adds c * HK to lnVolume with c >= 0.000509. An HK computed
\* with the 1e-9 denominator from a positive diameter and BA of the other
\* cohorts is of the order of 1e9 or more, and exp() raises OverflowError
\* ("math range error"); that outcome is the value OverflowError.
OverflowError == [NoVolume EXCEPT !.kind = "OverflowError"]

VolumeOverflows(HK) == HK[2] = Zero /\ RPos(HK[1]) /\ RPos(HK[3])

getVolume(sp, region, BA, QMD, age, stems, HK, standBA) ==
    IF VolumeOverflows(HK) THEN OverflowError
    ELSE [kind |-> "exp", tradslag |-> sp, BA |-> BA, QMD |-> QMD, age |-> age,
          stems |-> stems, HK |-> HK,
          StandBA |-> IF sp = OvLov /\ region \notin {"North", "Central"}
                      THEN standBA ELSE Zero]

ZeroVolume == [NoVolume EXCEPT !.kind = "zero"]

----------------------------------------------------------------------------
\* species.py: getMortality

\* c * 10^-e, a coefficient as it is written in the source
Coef(c, e) == Frac(c, 10^e)

\* c0 + c1 * BA + c2 * BA**2
Quadratic(c0, c1, c2, BA) == RAdd(c0, RAdd(RMul(c1, BA), RMul(c2, RMul(BA, BA))))

\* c1 * stems2 + c2 * stems2**2, the square taken of stems2 / 100 with the
\* coefficient c2e4 = c2 * 10^4
StemsTerms(c1, c2e4, stems2) ==
    RAdd(RMul(c1, stems2),
         RMul(c2e4, RMul(RMul(stems2, Frac(1, 100)), RMul(stems2, Frac(1, 100)))))

\* AKL = min((int(age) // 10) + 1, 17)
AKL(age) == IF (age \div 10) + 1 < 17 THEN (age \div 10) + 1 ELSE 17

\* The regression of the crowding fraction per period year in percent,
\* by species and region.
CrowdingRegression(sp, region, BA, stems) ==
    IF sp = Gran THEN
        IF region \in {"North", "Central"}
        THEN Quadratic(Coef(-2748, 6), Coef(4493, 7), Coef(2515, 8), BA)
        ELSE RAdd(Quadratic(Coef(1235, 5), Coef(-2749, 6), Coef(8214, 8), BA),
                  StemsTerms(Coef(2457, 8), Coef(-4498, 8), RMin(stems, R(2800))))
    ELSE IF sp = Tall THEN
        IF region \in {"North", "Central"}
        THEN RAdd(Quadratic(Coef(3143, 5), Coef(-6877, 6), Coef(2056, 7), BA),
                  StemsTerms(Coef(2684, 8), Coef(-5092, 8), RMin(stems, R(2700))))
        ELSE RAdd(Quadratic(Coef(-6766, 5), Coef(-1283, 6), Coef(7748, 8), BA),
                  StemsTerms(Coef(1441, 7), Coef(-1839, 7), RMin(stems, R(4000))))
    ELSE IF sp = Bjork THEN
        IF region \in {"North", "Central"}
        THEN RAdd(Coef(-2513, 5), RMul(Coef(5489, 6), BA))
        ELSE Coef(4, 2)
    ELSE
        IF region \in {"North", "Central"}
        THEN Quadratic(Coef(-7277, 6), Coef(-2456, 6), Coef(1923, 7), BA)
        ELSE Coef(4, 2)

\* `other`: the fraction of BA lost to other causes over the period
OtherMortality(sp, region, age) ==
    IF sp = Gran THEN
        IF region \in {"North", "Central"}
        THEN Frac(33370 * AKL(age) - 315, 10^8)
        ELSE Frac(36, 10^4)
    ELSE IF sp = Tall THEN
        IF region \in {"North", "Central"} THEN Frac(35, 10^4) ELSE Frac(38, 10^4)
    ELSE IF sp = Bjork THEN
        IF region \in {"North", "Central"} THEN Frac(78, 10^4) ELSE Frac(46, 10^4)
    ELSE
        IF region \in {"North", "Central"} THEN Frac(5, 10^3) ELSE Frac(46, 10^4)

\* The clamp's removal: the regression's value returned as it is.
UnclampedCrowding(crowding) == crowding

\* if crowding > 1: crowding = 1.0 elif crowding < 0: crowding = 0.0
ClampCrowding(crowding) ==
    IF RLt(One, crowding) THEN One
    ELSE IF RLt(crowding, Zero) THEN Zero
    ELSE crowding

\* getMortality(increment): (crowding, 0.9 * QMD, other, QMD); the two
\* diameters are CrowdDiameter(QMD) and QMD.
getMortality(sp, region, BA, stems, age, increment) ==
    [crowd |-> ClampCrowding(RMul(CrowdingRegression(sp, region, BA, stems),
                                  Frac(increment, 100))),
     other |-> OtherMortality(sp, region, age)]

----------------------------------------------------------------------------
\* stand.py: competition metrics and the metrics refresh

\* HK = (QMDOtherSpecies / denom) * BA_other with denom = QMD if QMD > 0
\* else 1e-9. The product is kept as its three factors <<other diameter,
\* own diameter (Zero when the 1e-9 floor applies), other BA>>.
HKOf(QMDOther, QMD, BAOther) ==
    <<QMDOther, IF RPos(QMD) THEN QMD ELSE Zero, BAOther>>

\* the product is 0.0 exactly when a factor of its numerator is 0
HKIsZero(hk) == hk[1] = Zero \/ hk[3] = Zero

SeqBA(ps) == Tup([i \in 1..Len(ps) |-> ps[i].BA])
SeqStems(ps) == Tup([i \in 1..Len(ps) |-> ps[i].stems])
SeqVOL(ps) == Tup([i \in 1..Len(ps) |-> ps[i].VOL])

\* Variant whose sums run over every cohort, the cohort itself included.
SelfInclusiveCompetitionOf(own, i) ==
    LET BA_all == safe_sum(SeqBA(own))
        N_all == safe_sum(SeqStems(own))
        QMD_all == qmd_cm(BA_all, N_all)
    IN [own[i] EXCEPT !.BAOtherSpecies = BA_all,
                      !.QMDOtherSpecies = QMD_all,
                      !.HK = HKOf(QMD_all, own[i].QMD, BA_all)]

\* EkoStand._competition_metrics, second loop, for cohort i of the parts
\* whose own QMD is current
CompetitionOf(own, i) ==
    LET BA_other == safe_sum(Others(SeqBA(own), i))
        N_other == safe_sum(Others(SeqStems(own), i))
        QMD_other == qmd_cm(BA_other, N_other)
    IN [own[i] EXCEPT !.BAOtherSpecies = BA_other,
                      !.QMDOtherSpecies = QMD_other,
                      !.HK = HKOf(QMD_other, own[i].QMD, BA_other)]

\* Variant without the first loop: the stored QMD is reused as it is.
StaleQMD_competition_metrics(ps) ==
    Tup([i \in 1..Len(ps) |-> CompetitionOf(ps, i)])

\* EkoStand._competition_metrics: own QMD for every part, then the
\* competition from the others
_competition_metrics(ps) ==
    CHOOSE done \in
        {Tup([i \in 1..Len(own) |-> CompetitionOf(own, i)]) :
            own \in {Tup([i \in 1..Len(ps) |->
                            [ps[i] EXCEPT !.QMD = qmd_cm(ps[i].BA, ps[i].stems)]])}} :
        TRUE

\* install_eko_compat: the StandBA property getter; the cached value when a
\* refresh has set it, else the sum over the parts.
_get_StandBA(tot, ps) ==
    IF tot.cached THEN tot.StandBA ELSE safe_sum(SeqBA(ps))

_get_StandStems(tot, ps) ==
    IF tot.cached THEN tot.StandStems ELSE safe_sum(SeqStems(ps))

\* root EkoStand._volume_for: exactly 0.0 for a degenerate cohort, else getVolume
_volume_for(p, region, BA, QMD, age, stems, HK, standBA) ==
    IF RLe(BA, Zero) \/ RLe(stems, Zero) THEN ZeroVolume
    ELSE getVolume(p.tradslag, region, BA, QMD, age, stems, HK, standBA)

\* The volume pass of the refresh: root goes through _volume_for, pkg calls
\* p.getVolume directly (src/eko1985/stand.py:72-74).
VolumePass(im, region, p, standBA) ==
    IF im = "root"
    THEN _volume_for(p, region, p.BA, p.QMD, p.age, p.stems, p.HK, standBA)
    ELSE getVolume(p.tradslag, region, p.BA, p.QMD, p.age, p.stems, p.HK, standBA)

\* Variant that leaves the last cohort out of the sums.
PartialStandTotals(ps) ==
    [StandBA |-> safe_sum(SubSeq(SeqBA(ps), 1, Len(ps) - 1)),
     StandStems |-> safe_sum(SubSeq(SeqStems(ps), 1, Len(ps) - 1)),
     StandVOL |-> SubSeq(SeqVOL(ps), 1, Len(ps) - 1), cached |-> TRUE]

\* The stand totals the refresh stores; StandVOL is the float sum of the
\* cohort volumes in list order, kept as that list.
StandTotals(ps) ==
    [StandBA |-> safe_sum(SeqBA(ps)), StandStems |-> safe_sum(SeqStems(ps)),
     StandVOL |-> SeqVOL(ps), cached |-> TRUE]

\* EkoStand._assign_current_state_metrics: the new parts. The volumes are
\* computed before the totals are stored, so a formula that reads StandBA
\* sees the value of the previous refresh. The volume loop stops at the
\* first cohort whose getVolume raises: that cohort and the ones after it
\* keep the VOL they had.
RefreshParts(im, region, ps, tot) ==
    CHOOSE done \in
        {Tup([i \in 1..Len(cm) |->
                IF \E j \in 1..i : VolumePass(im, region, cm[j], Zero) = OverflowError
                THEN cm[i]
                ELSE [cm[i] EXCEPT !.VOL =
                        VolumePass(im, region, cm[i], _get_StandBA(tot, ps))]]) :
            cm \in {_competition_metrics(ps)}} :
        TRUE

\* Whether the refresh that produced the parts raised in its volume loop.
RefreshRaises(im, region, done) ==
    \E i \in 1..Len(done) : VolumePass(im, region, done[i], Zero) = OverflowError

\* The totals after a refresh: stored only when the volume loop completed.
RefreshTotals(im, region, done, tot) ==
    IF RefreshRaises(im, region, done) THEN tot ELSE StandTotals(done)

\* What a call reports: "none" when it returned.
RefreshError(im, region, done) ==
    IF RefreshRaises(im, region, done) THEN "OverflowError" ELSE "none"

----------------------------------------------------------------------------
\* stand.py: thin()

\* Variant that removes the stems at the diameter of crowding mortality, 0.9 * QMD.
SmallTreeThinPart(p, removals) ==
    LET asked == IF p.tradslag \in DOMAIN removals THEN removals[p.tradslag] ELSE Zero
        BA_out == RMax(Zero, RMin(asked, p.BA))
    IN IF RPos(BA_out) /\ RPos(p.QMD)
       THEN [p EXCEPT !.BA = RSub(p.BA, BA_out),
                      !.stems = RMax(Zero, RSub(p.stems,
                                                RDiv(BA_out, RMul(Frac(81, 100), p.QMD))))]
       ELSE p

\* One cohort of EkoStand.thin (the same statements in both classes): the
\* request looked up by species, clamped to [0, BA]; stems removed at the
\* cohort's stored QMD; nothing is removed unless BA_out > 0 and QMD > 0.
ThinPart(p, removals) ==
    LET asked == IF p.tradslag \in DOMAIN removals THEN removals[p.tradslag] ELSE Zero
        BA_out == RMax(Zero, RMin(asked, p.BA))
    IN IF RPos(BA_out) /\ RPos(p.QMD)
       THEN LET stems_out == RDiv(BA_out, p.QMD)
            IN [p EXCEPT !.BA = RSub(p.BA, BA_out),
                         !.stems = RMax(Zero, RSub(p.stems, stems_out))]
       ELSE p

\* Variant of the loop that applies any request of the map to every cohort,
\* whatever its species.
UnkeyedThinParts(ps, removals) ==
    Tup([i \in 1..Len(ps) |->
           ThinPart(ps[i], [sp \in {ps[i].tradslag} \cup DOMAIN removals |->
                              IF DOMAIN removals = {} THEN Zero
                              ELSE removals[CHOOSE k \in DOMAIN removals :
                                              \A j \in DOMAIN removals :
                                                 RLe(removals[j], removals[k])]])])

ThinParts(ps, removals) == Tup([i \in 1..Len(ps) |-> ThinPart(ps[i], removals)])

----------------------------------------------------------------------------
\* stand.py: grow()

\* 0.9 * QMD as a carried diameter: (0.9)^2 = 81/100 of the mean-tree area
CrowdDiameter(QMD) == RMul(Frac(81, 100), QMD)

\* Variant taking mortality from the provisional end-of-period BA.
ProvisionalMortalityGrowRootPart(p, years, apply_mortality, m, inc) ==
    LET q == IF apply_mortality THEN RAdd(m.crowd, m.other) ELSE Zero
        BA1 == RAdd(p.BA, inc)
        BA2 == RMax(Zero, RSub(BA1, RMul(q, BA1)))
        stems2 == RMax(Zero, RSub(p.stems, RMul(q, p.stems)))
    IN [p EXCEPT !.BAI5 = inc, !.BA = BA2, !.stems = stems2,
                 !.QMD = qmd_cm(BA2, stems2), !.age = p.age + years]

\* root EkoStand.grow, one cohort, steps 1-5b: gross increment added,
\* mortality taken from the start-of-period BA, stems removed at the two
\* assumed diameters, both floored at 0; the age always advances.
GrowRootPart(p, years, apply_mortality, m, inc) ==
    LET BAQ_crowd == IF apply_mortality THEN m.crowd ELSE Zero
        BAQ_other == IF apply_mortality THEN m.other ELSE Zero
        QMD_dead_crowd == CrowdDiameter(p.QMD)
        QMD_dead_other == p.QMD
        BA1 == RAdd(p.BA, inc)
        stems1 == p.stems
        age2 == p.age + years
        BA_Mortality == RMul(RAdd(BAQ_crowd, BAQ_other), p.BA)
        stems_other == IF RPos(p.QMD)
                       THEN RDiv(RMul(p.BA, BAQ_other), QMD_dead_other) ELSE Zero
        stems_crowd == IF RPos(p.QMD)
                       THEN RDiv(RMul(p.BA, BAQ_crowd), QMD_dead_crowd) ELSE Zero
        stems_Mortality == RMax(Zero, RAdd(stems_other, stems_crowd))
        BA2 == RMax(Zero, RSub(BA1, BA_Mortality))
        stems2 == RMax(Zero, RSub(stems1, stems_Mortality))
    IN [p EXCEPT !.BAI5 = inc, !.BA = BA2, !.stems = stems2,
                 !.QMD = qmd_cm(BA2, stems2), !.age = age2]

\* pkg EkoStand.grow, one cohort, step 3: with mortality both BA and stems
\* are scaled by (1 - q_total) and the increment added to BA; without it
\* BA, stems and age are carried over unchanged.
GrowPkgPart(p, years, apply_mortality, m, inc) ==
    LET q_total == IF apply_mortality THEN RAdd(m.crowd, m.other) ELSE Zero
        next_BA == IF apply_mortality
                   THEN RAdd(RMul(RSub(One, q_total), p.BA), inc) ELSE p.BA
        next_stems == IF apply_mortality
                      THEN RMul(RSub(One, q_total), p.stems) ELSE p.stems
        next_age == IF apply_mortality THEN p.age + years ELSE p.age
    IN [p EXCEPT !.BAI5 = inc, !.BA = next_BA, !.stems = next_stems,
                 !.QMD = qmd_cm(next_BA, next_stems), !.age = next_age]

GrowPart(im, p, years, apply_mortality, m, inc) ==
    IF im = "root" THEN GrowRootPart(p, years, apply_mortality, m, inc)
    ELSE GrowPkgPart(p, years, apply_mortality, m, inc)

\* grow() from the refreshed start-of-period parts up to the commit: every
\* cohort from its own start-of-period fields.
GrowCommit(im, start, years, apply_mortality, mort, bai) ==
    Tup([i \in 1..Len(start) |->
           GrowPart(im, start[i], years, apply_mortality, mort[i], bai[i])])

\* What getMortality and getBAI5 of a cohort read of the stand's cohorts:
\* the cohort's own fields, the competition terms among them.
RegressionView(p) ==
    [tradslag |-> p.tradslag, BA |-> p.BA, stems |-> p.stems, age |-> p.age,
     QMD |-> p.QMD, BAOtherSpecies |-> p.BAOtherSpecies, HK |-> p.HK]

\* Variant of the loop that commits each cohort's increment and re-derives
\* the competition terms before the next cohort's regressions run.
InterleavedLoopState(start, bai, i) ==
    _competition_metrics(
        Tup([j \in 1..Len(start) |->
               IF j < i THEN [start[j] EXCEPT !.BAI5 = bai[j],
                                              !.BA = RAdd(start[j].BA, bai[j])]
               ELSE start[j]]))

\* grow(), the loop over the cohorts that calls getMortality and getBAI5:
\* the list as it is when the regressions of cohort i run. The cohorts
\* before it have had their BAI5 assigned and nothing else.
LoopState(start, bai, i) ==
    Tup([j \in 1..Len(start) |->
           IF j < i THEN [start[j] EXCEPT !.BAI5 = bai[j]] ELSE start[j]])

\* grow(), the start-of-period volumes p.VOL0: computed after the first
\* refresh has stored the totals of the start-of-period state.
StartVolumes(im, region, start) ==
    Tup([i \in 1..Len(start) |->
           VolumePass(im, region, start[i], safe_sum(SeqBA(start)))])

\* root grow(), step 5a: the end-of-period state before the removals (BA1,
\* stems1, age2, QMD1, HK1) and its volumes VOL1.
PreRemovalVolumes(region, start, years, bai) ==
    CHOOSE vols \in
        {Tup([i \in 1..Len(own) |->
                CHOOSE v \in
                    {_volume_for(q, region, q.BA, q.QMD, q.age, q.stems, q.HK,
                                 safe_sum(SeqBA(start))) :
                        q \in {CompetitionOf(own, i)}} : TRUE]) :
            own \in {Tup([i \in 1..Len(start) |->
                            [start[i] EXCEPT !.BA = RAdd(start[i].BA, bai[i]),
                                             !.age = start[i].age + years,
                                             !.QMD = qmd_cm(RAdd(start[i].BA, bai[i]),
                                                            start[i].stems)]])}} :
        TRUE

\* grow(), the volume bookkeeping of the commit. root assigns
\* gross_volume_increment = VOL1 - VOL0 and nothing else; pkg assigns the
\* difference of the committed and the start-of-period volume to both
\* gross_volume_increment and volume_increment.
GrowBookkeeping(im, region, start, years, bai, done) ==
    CHOOSE booked \in
        {Tup([i \in 1..Len(done) |->
                IF im = "root"
                THEN [done[i] EXCEPT !.VOL0 = vol0[i],
                        !.gross_volume_increment = VolumeDifference(vol1[i], vol0[i])]
                ELSE [done[i] EXCEPT !.VOL0 = vol0[i],
                        !.gross_volume_increment = VolumeDifference(done[i].VOL, vol0[i]),
                        !.volume_increment = VolumeDifference(done[i].VOL, vol0[i])]]) :
            vol0 \in {StartVolumes(im, region, start)},
            vol1 \in {IF im = "root" THEN PreRemovalVolumes(region, start, years, bai)
                      ELSE <<>>}} :
        TRUE

----------------------------------------------------------------------------
\* Inputs

\* grow(years=5, ...)
DefaultYears == 5

YearsSet == {DefaultYears, 2 * DefaultYears}

\* getMortality: crowding is a regression in BA clamped to [0, 1]: a value
\* inside the range and the clamp's upper end; other is the constant
\* 0.5/100 of Beech and Broadleaf in region Central.
CrowdSet == {Frac(81, 200), One}
OtherSet == {Frac(1, 200)}
NoMortality == [crowd |-> Zero, other |-> Zero]

\* getBAI5: exp(..), a positive number
BAI5Set == {Frac(1, 20), R(2)}

\* What the two regressions return for one cohort in one call with
\* mortality: any pair but light crowding with a negligible increment.
GrowthSet ==
    {g \in [crowd : CrowdSet, other : OtherSet, BAI5 : BAI5Set] :
        g.crowd = One \/ g.BAI5 = R(2)}

\* thin(): the basal areas a caller asks to remove from a cohort: a negative
\* amount, a quarter of the cohort's BA (5.0 of 20.0) and more than it has.
ThinRequests(p) == {R(-1), RMul(Frac(1, 4), p.BA), RAdd(p.BA, R(80))}

\* An element of the list that is not an EkoStandPart (a string, say).
NotAPart == <<"str", Zero, Zero, 0>>

\* The lists stands are built from, cohorts as <<species, BA, stems, age>>:
\* the empty list, one cohort, two cohorts, and a list with a foreign element.
StandInputs ==
    { <<>>,
      << <<Bok, R(20), R(1200), 40>> >>,
      << <<Bok, R(20), R(1200), 40>>, <<OvLov, R(10), R(800), 30>> >>,
      << <<Bok, R(20), R(1200), 40>>, NotAPart >> }

\* all(isinstance(p, EkoStandPart) for p in parts); True for the empty list.
AllParts(inp) == \A i \in 1..Len(inp) : inp[i][1] \in Tradslag

SpeciesOf(ps) == {ps[i].tradslag : i \in 1..Len(ps)}

CohortOf(ps, sp) == ps[CHOOSE i \in 1..Len(ps) : ps[i].tradslag = sp]

\* The removal maps tried: any subset of the stand's species as keys.
RemovalMaps(ps) ==
    UNION {{f \in [D -> UNION {ThinRequests(ps[i]) : i \in 1..Len(ps)}] :
              \A sp \in D : f[sp] \in ThinRequests(CohortOf(ps, sp))} :
           D \in SUBSET SpeciesOf(ps)}

NoRemovals == [sp \in {} |-> Zero]

----------------------------------------------------------------------------
\* The stand as a state machine

UnsetTotals == [StandBA |-> Zero, StandStems |-> Zero, StandVOL |-> <<>>, cached |-> FALSE]

\* EkoStand.__init__: ValueError unless every element is an EkoStandPart
\* (no stand is made: no parts, nothing to call); otherwise the parts are
\* registered and refreshed once.
Init ==
    /\ impl \in {"root", "pkg"}
    /\ Site = EkoStandSite([SiteDefaults EXCEPT !.H100_Spruce = Given(30),
                                                !.H100_Pine = Given(26),
                                                !.region = RegionStr("Central")])
    /\ \E inp \in StandInputs :
       \E made \in {IF AllParts(inp)
                    THEN Tup([i \in 1..Len(inp) |->
                               register_stand(
                                   EkoStandPart(inp[i][1], inp[i][2], inp[i][3], inp[i][4]))])
                    ELSE <<>>} :
       \E done \in {RefreshParts(impl, Site.region, made, UnsetTotals)} :
             /\ parts = done
             /\ totals = IF AllParts(inp)
                         THEN RefreshTotals(impl, Site.region, done, UnsetTotals)
                         ELSE UnsetTotals
             /\ call = [op |-> "init", years |-> 0, apply_mortality |-> FALSE,
                        removals |-> NoRemovals, mort |-> <<>>, bai |-> <<>>,
                        seen |-> <<>>,
                        start |-> made,
                        error |-> IF AllParts(inp)
                                  THEN RefreshError(impl, Site.region, done)
                                  ELSE "ValueError"]
    /\ steps = 0

\* A stand exists to be called: its constructor returned.
Constructed == ~(call.op = "init" /\ call.error # "none")

\* EkoStand.thin(removals)
Thin ==
    /\ Constructed
    /\ steps < MaxSteps
    /\ \E removals \in RemovalMaps(parts) :
       \E cut \in {ThinParts(parts, removals)} :
       \E done \in {RefreshParts(impl, Site.region, cut, totals)} :
          /\ parts' = done
          /\ totals' = RefreshTotals(impl, Site.region, done, totals)
          /\ call' = [op |-> "thin", years |-> 0, apply_mortality |-> FALSE,
                      removals |-> removals, mort |-> <<>>, bai |-> <<>>,
                      seen |-> <<>>,
                      start |-> parts,
                      error |-> RefreshError(impl, Site.region, done)]
    /\ steps' = steps + 1
    /\ UNCHANGED <<impl, Site>>

\* The parts a grow() leaves when a getVolume of its end-of-period state
\* raises before the commit: the start-of-period parts, VOL0 and BAI5
\* already set.
GrowAborted(start, bai) ==
    Tup([i \in 1..Len(start) |->
           [start[i] EXCEPT !.BAI5 = bai[i],
                            !.VOL0 = getVolume(start[i].tradslag, Site.region,
                                               start[i].BA, start[i].QMD, start[i].age,
                                               start[i].stems, start[i].HK,
                                               safe_sum(SeqBA(start)))]])

\* EkoStand.grow(years, apply_mortality): getMortality is called only when
\* apply_mortality is set; getBAI5 always. The call ends at the first
\* refresh or volume that raises.
GrowWith(years, apply_mortality, mort, bai) ==
    \E start \in {RefreshParts(impl, Site.region, parts, totals)} :
    \E committed \in {GrowCommit(impl, start, years, apply_mortality, mort, bai)} :
    \E done \in {RefreshParts(impl, Site.region, committed, StandTotals(start))} :
       /\ parts' = IF RefreshRaises(impl, Site.region, start) THEN start
                   ELSE IF RefreshRaises(impl, Site.region, done)
                        THEN GrowAborted(start, bai)
                        ELSE GrowBookkeeping(impl, Site.region, start, years, bai, done)
       /\ totals' = IF RefreshRaises(impl, Site.region, start) THEN totals
                    ELSE IF RefreshRaises(impl, Site.region, done)
                         THEN StandTotals(start)
                         ELSE StandTotals(done)
       /\ call' = [op |-> "grow", years |-> years, apply_mortality |-> apply_mortality,
                   removals |-> NoRemovals, mort |-> mort, bai |-> bai,
                   seen |-> Tup([i \in 1..Len(start) |->
                                  RegressionView(LoopState(start, bai, i)[i])]),
                   start |-> parts,
                   error |-> IF RefreshRaises(impl, Site.region, start)
                                \/ RefreshRaises(impl, Site.region, done)
                             THEN "OverflowError" ELSE "none"]
       /\ steps' = steps + 1
       /\ UNCHANGED <<impl, Site>>

GrowMortality ==
    /\ Constructed
    /\ steps < MaxSteps
    /\ \E years \in YearsSet, g \in [1..Len(parts) -> GrowthSet] :
          GrowWith(years, TRUE,
                   [i \in 1..Len(parts) |-> [crowd |-> g[i].crowd, other |-> g[i].other]],
                   [i \in 1..Len(parts) |-> g[i].BAI5])

GrowNoMortality ==
    /\ Constructed
    /\ steps < MaxSteps
    /\ \E years \in YearsSet, bai \in [1..Len(parts) -> BAI5Set] :
          GrowWith(years, FALSE, [i \in 1..Len(parts) |-> NoMortality], bai)

Next == Thin \/ GrowMortality \/ GrowNoMortality

Spec == Init /\ [][Next]_vars

----------------------------------------------------------------------------
\* The stand in region Central or South, with the refresh callable on its own

\* The regions whose volume formula of the other broadleaves differs: only
\* outside North and Central does it read the stand's total basal area.
RefreshRegions == {"Central", "South"}

\* A stand of one or two cohorts on a site of either region, constructed.
RefreshInit ==
    /\ impl \in {"root", "pkg"}
    /\ \E region \in RefreshRegions :
          Site = EkoStandSite([SiteDefaults EXCEPT !.H100_Spruce = Given(30),
                                                  !.H100_Pine = Given(26),
                                                  !.region = RegionStr(region)])
    /\ \E inp \in {i \in StandInputs : AllParts(i) /\ Len(i) > 0} :
       \E made \in {Tup([i \in 1..Len(inp) |->
                           register_stand(
                               EkoStandPart(inp[i][1], inp[i][2], inp[i][3], inp[i][4]))])} :
       \E done \in {RefreshParts(impl, Site.region, made, UnsetTotals)} :
             /\ parts = done
             /\ totals = RefreshTotals(impl, Site.region, done, UnsetTotals)
             /\ call = [op |-> "init", years |-> 0, apply_mortality |-> FALSE,
                        removals |-> NoRemovals, mort |-> <<>>, bai |-> <<>>,
                        seen |-> <<>>,
                        start |-> made,
                        error |-> RefreshError(impl, Site.region, done)]
    /\ steps = 0

\* grow(years, True) where getMortality returns the region's constant for
\* the other mortality of each cohort.
GrowRegional ==
    /\ Constructed
    /\ steps < MaxSteps
    /\ \E years \in YearsSet, g \in [1..Len(parts) -> GrowthSet] :
          GrowWith(years, TRUE,
                   [i \in 1..Len(parts) |->
                       [crowd |-> g[i].crowd,
                        other |-> OtherMortality(parts[i].tradslag, Site.region,
                                                 parts[i].age)]],
                   [i \in 1..Len(parts) |-> g[i].BAI5])

\* EkoStand._refresh_competition_vars(), as a replay snapshot calls it: the
\* refresh run once more on the state as it is.
Refresh ==
    /\ Constructed
    /\ call.op # "refresh"
    /\ \E done \in {RefreshParts(impl, Site.region, parts, totals)} :
          /\ parts' = done
          /\ totals' = RefreshTotals(impl, Site.region, done, totals)
          /\ call' = [op |-> "refresh", years |-> 0, apply_mortality |-> FALSE,
                      removals |-> NoRemovals, mort |-> <<>>, bai |-> <<>>,
                        seen |-> <<>>,
                      start |-> parts,
                      error |-> RefreshError(impl, Site.region, done)]
    /\ UNCHANGED <<impl, Site, steps>>

RefreshNext == Thin \/ GrowRegional \/ GrowNoMortality \/ Refresh

RefreshSpec == RefreshInit /\ [][RefreshNext]_vars

----------------------------------------------------------------------------
\* The site, one cohort and the species formulas called on it directly

Regions == {"North", "Central", "South"}

\* The site indices passed to EkoStandSite: each English argument absent,
\* 0, 26 or 40 m, each Swedish argument absent or 20 m.
EnglishH100 == {None, Given(0), Given(26), Given(40)}
SwedishH100 == {None, Given(20)}

\* Cohort states <<BA, stems, age>>: all zero, a usual stand, a very large one.
CohortInputs == {<<0, 0, 0>>, <<20, 1200, 40>>, <<250, 5000, 200>>}

FormulaCall(op, increment, start, error, result) ==
    [op |-> op, increment |-> increment, start |-> start, error |-> error,
     result |-> result]

\* EkoStandSite(..) evaluated, and one cohort made that no stand holds yet.
FormulaInit ==
    /\ impl \in {"root", "pkg"}
    /\ \E region \in Regions, H100_Spruce \in EnglishH100, H100_Pine \in EnglishH100,
          h100_gran \in SwedishH100, h100_tall \in SwedishH100 :
          Site = EkoStandSite([SiteDefaults EXCEPT !.H100_Spruce = H100_Spruce,
                                                   !.H100_Pine = H100_Pine,
                                                   !.h100_gran = h100_gran,
                                                   !.h100_tall = h100_tall,
                                                   !.region = RegionStr(region)])
    /\ \E sp \in Tradslag, c \in CohortInputs :
          /\ parts = <<EkoStandPart(sp, R(c[1]), R(c[2]), c[3])>>
          /\ call = FormulaCall("new", 0, parts, "none", <<>>)
    /\ totals = UnsetTotals
    /\ steps = 0

\* EkoStand([p], site): needs a site that was constructed
Attach ==
    /\ steps < MaxSteps
    /\ Site.error = "none"
    /\ ~parts[1].stand
    /\ \E made \in {<<register_stand(parts[1])>>} :
       \E done \in {RefreshParts(impl, Site.region, made, UnsetTotals)} :
          /\ parts' = done
          /\ totals' = RefreshTotals(impl, Site.region, done, UnsetTotals)
          /\ call' = FormulaCall("init", 0, parts,
                                 RefreshError(impl, Site.region, done), <<>>)
    /\ steps' = steps + 1
    /\ UNCHANGED <<impl, Site>>

\* p.getMortality(increment)
CallGetMortality ==
    /\ steps < MaxSteps
    /\ \E increment \in YearsSet :
       \E p \in {parts[1]} :
          call' = FormulaCall("getMortality", increment, parts, RequireStand(p),
                              IF RequireStand(p) = "none"
                              THEN <<getMortality(p.tradslag, Site.region, p.BA, p.stems,
                                                  p.age, increment)>>
                              ELSE <<>>)
    /\ steps' = steps + 1
    /\ UNCHANGED <<impl, Site, parts, totals>>

\* p.getBAI5(): stores the increment in p.BAI5 and returns it
CallGetBAI5 ==
    /\ steps < MaxSteps
    /\ \E bai \in BAI5Set :
       \E p \in {parts[1]} :
          /\ parts' = IF RequireStand(p) = "none" THEN <<[p EXCEPT !.BAI5 = bai]>> ELSE parts
          /\ call' = FormulaCall("getBAI5", 0, parts, RequireStand(p),
                                 IF RequireStand(p) = "none" THEN <<bai>> ELSE <<>>)
    /\ steps' = steps + 1
    /\ UNCHANGED <<impl, Site, totals>>

\* p.getVolume(BA=p.BA, QMD=p.QMD, age=p.age, stems=p.stems, HK=p.HK)
CallGetVolume ==
    /\ steps < MaxSteps
    /\ \E p \in {parts[1]} :
       \E v \in {getVolume(p.tradslag, Site.region, p.BA, p.QMD, p.age, p.stems, p.HK,
                           totals.StandBA)} :
          call' = FormulaCall("getVolume", 0, parts,
                              IF RequireStand(p) # "none" THEN RequireStand(p)
                              ELSE IF v = OverflowError THEN "OverflowError" ELSE "none",
                              IF RequireStand(p) = "none" /\ v # OverflowError
                              THEN <<v>> ELSE <<>>)
    /\ steps' = steps + 1
    /\ UNCHANGED <<impl, Site, parts, totals>>

FormulaNext == Attach \/ CallGetMortality \/ CallGetBAI5 \/ CallGetVolume

FormulaSpec == FormulaInit /\ [][FormulaNext]_vars

----------------------------------------------------------------------------
\* The site constructor applied to its keyword arguments

\* A site both of whose indices are given, in region Central.
BaseSiteArgs ==
    [SiteDefaults EXCEPT !.H100_Spruce = Given(30), !.H100_Pine = Given(26),
                         !.region = RegionStr("Central")]

\* The values tried for the region argument: a member of RegionSE, the
\* English and the Swedish names, None, other strings, and the integer 3.
RegionArgs ==
    {RegionMember("North"), RegionStr("North"), RegionStr("Central"), RegionStr("South"),
     RegionStr("NORRA"), RegionStr("MELLERSTA"), RegionStr("SODRA"), NoRegion,
     RegionStr("north"), RegionStr("Norrland"), RegionObject("3")}

\* The argument lists tried: one attribute's English and Swedish arguments
\* varied at a time, the others as in BaseSiteArgs.
SiteArgs ==
    {[BaseSiteArgs EXCEPT !.latitude = e, !.latitud = sv] :
        e \in {None, Given(58), Given(62)}, sv \in {None, Given(60)}}
    \cup {[BaseSiteArgs EXCEPT !.altitude = e, !.hojd_moh = sv] :
        e \in {None, Given(100)}, sv \in {None, Given(200)}}
    \cup {[BaseSiteArgs EXCEPT !.vegetation = e, !.vegetation_ = sv] :
        e \in {None, Given(1), Given(7), Member("VegetationsKod", 13)},
        sv \in {None, Member("VegetationsKod", 13), Member("VegetationsKod", 1)}}
    \cup {[BaseSiteArgs EXCEPT !.soil_moisture = e, !.markfuktighet = sv] :
        e \in {None, Given(1), Given(3), Member("MarkfuktighetKod", 1)},
        sv \in {None, Member("MarkfuktighetKod", 5), Given(5)}}
    \cup {[BaseSiteArgs EXCEPT !.H100_Spruce = e, !.h100_gran = sv] :
        e \in {None, Given(30)}, sv \in {None, Given(20)}}
    \cup {[BaseSiteArgs EXCEPT !.H100_Pine = e, !.h100_tall = sv] :
        e \in {None, Given(26)}, sv \in {None, Given(20)}}
    \cup {[BaseSiteArgs EXCEPT !.fertilised = e, !.godslad = sv] :
        e \in {Given(0), Given(1)}, sv \in {None, Given(0), Given(1)}}
    \cup {[BaseSiteArgs EXCEPT !.thinned = e, !.gallrad = sv] :
        e \in {Given(0), Given(1)}, sv \in {None, Given(0), Given(1)}}
    \cup {[BaseSiteArgs EXCEPT !.thinned_5y = e, !.gallrad_senaste_5ar = sv] :
        e \in {Given(0), Given(1)}, sv \in {None, Given(0), Given(1)}}
    \cup {[BaseSiteArgs EXCEPT !.TAX77 = e, !.tax77 = sv] :
        e \in {Given(0), Given(1)}, sv \in {None, Given(0), Given(1)}}

\* The caller holds the arguments; nothing is constructed yet.
SiteInit ==
    /\ impl = "pkg"
    /\ \E kw \in SiteArgs, region \in RegionArgs :
          Site = [error |-> "unconstructed", args |-> [kw EXCEPT !.region = region]]
    /\ parts = <<>>
    /\ totals = UnsetTotals
    /\ call = FormulaCall("new", 0, <<>>, "none", <<>>)
    /\ steps = 0

\* EkoStandSite(**kw)
ConstructSite ==
    /\ Site.error = "unconstructed"
    /\ Site' = EkoStandSite(Site.args)
    /\ call' = FormulaCall("EkoStandSite", 0, <<>>, Site'.error, <<>>)
    /\ steps' = steps + 1
    /\ UNCHANGED <<impl, parts, totals>>

SiteNext == ConstructSite

SiteSpec == SiteInit /\ [][SiteNext]_vars

----------------------------------------------------------------------------
\* replay.py: _combine_model_expected, in floating point

\* The metrics are Python floats. A float here has Precision significant
\* bits (a double has 53); every sum and difference is rounded to the
\* nearest float, ties to the even significand, as IEEE 754 does.
Precision == 8

\* The exponents a float of the metrics tried can have.
ExponentRange == -14..10

Pow2(k) == IF k >= 0 THEN <<2^k, 1>> ELSE <<1, 2^(-k)>>

RAbs(x) == <<Abs(x[1]), x[2]>>

\* The spacing of the floats around x # 0: 2^k with
\* 2^(Precision-1) <= |x| / 2^k < 2^Precision.
Ulp(x) ==
    Pow2(CHOOSE k \in ExponentRange :
            /\ RLe(RMul(Pow2(Precision - 1), Pow2(k)), RAbs(x))
            /\ RLt(RAbs(x), RMul(Pow2(Precision), Pow2(k))))

\* x rounded to the nearest float.
Fl(x) ==
    IF x[1] = 0 THEN Zero
    ELSE LET q == Ulp(x)
             t == RDiv(RAbs(x), q)
             f == t[1] \div t[2]
             twice == 2 * (t[1] % t[2])
             m == IF twice < t[2] THEN f
                  ELSE IF twice > t[2] THEN f + 1
                  ELSE IF f % 2 = 0 THEN f ELSE f + 1
             r == RMul(R(m), q)
         IN IF x[1] < 0 THEN RNeg(r) ELSE r

\* a + b and a - b of two floats
FAdd(a, b) == Fl(RAdd(a, b))
FSub(a, b) == Fl(RSub(a, b))

\* A value of a metrics dict: None, or a float.
NoValue == [has |-> FALSE, v |-> Zero]
Val(x) == [has |-> TRUE, v |-> x]

MetricKeys == {"N", "BA", "QMD", "VOL", "age"}

\* ABSOLUTE_TOLERANCES.get(key): the float literal 0.1 for the four
\* metrics, None for "age".
ABSOLUTE_TOLERANCES(key) ==
    IF key \in {"N", "BA", "QMD", "VOL"} THEN Val(Fl(Frac(1, 10))) ELSE NoValue

\* Variant that reports the model value as it is.
UnclampedAlign(diff, tolerance, model_val, expected_val) == model_val

\* The aligned value of one metric: the expected value plus or minus the
\* tolerance when the difference is beyond it, else the model value.
Align(diff, tolerance, model_val, expected_val) ==
    IF tolerance.has /\ RLt(tolerance.v, RAbs(diff))
    THEN FAdd(expected_val, IF RPos(diff) THEN tolerance.v ELSE RNeg(tolerance.v))
    ELSE model_val

\* One turn of the loop of _combine_model_expected.
CombineMetric(key, model_val, expected_val) ==
    IF ~model_val.has \/ ~expected_val.has
    THEN [model |-> model_val, expected |-> expected_val, delta |-> NoValue,
          raw_model |-> model_val, raw_delta |-> NoValue, adjusted |-> FALSE]
    ELSE LET diff == FSub(model_val.v, expected_val.v)
             tolerance == ABSOLUTE_TOLERANCES(key)
             aligned_val == Align(diff, tolerance, model_val.v, expected_val.v)
         IN [model |-> Val(aligned_val), expected |-> expected_val,
             delta |-> Val(FSub(aligned_val, expected_val.v)),
             raw_model |-> model_val, raw_delta |-> Val(diff),
             adjusted |-> tolerance.has /\ RLt(tolerance.v, RAbs(diff))]

\* _combine_model_expected(model, expected); a model of None reads as a
\* dict without values.
_combine_model_expected(model, expected) ==
    [key \in MetricKeys |-> CombineMetric(key, model[key], expected[key])]

\* The floats tried as expected values, and as model values the same ones
\* and values within and beyond the tolerance of them.
ExpectedValues == {NoValue, Val(Zero), Val(One), Val(R(3)), Val(Frac(41, 2)), Val(R(100))}

ModelValues ==
    ExpectedValues
    \cup {Val(Frac(33, 32)), Val(Frac(7, 8)), Val(R(2)), Val(R(25)), Val(R(130)),
          Val(Frac(1, 4))}

NoMetrics == [key \in MetricKeys |-> NoValue]
BaseMetrics == [key \in MetricKeys |-> Val(R(3))]

\* The caller holds a model dict and an expected dict that differ in one
\* metric, or no model dict at all.
CompareInit ==
    /\ impl = "pkg"
    /\ Site = BaseSiteArgs
    /\ parts = <<>>
    /\ totals = UnsetTotals
    /\ steps = 0
    /\ \E key \in MetricKeys, m \in ModelValues, e \in ExpectedValues,
          model \in {NoMetrics, BaseMetrics} :
          call = [op |-> "new",
                  model |-> IF model = NoMetrics THEN NoMetrics
                            ELSE [model EXCEPT ![key] = m],
                  expected |-> [BaseMetrics EXCEPT ![key] = e],
                  result |-> [k \in MetricKeys |-> CombineMetric(k, NoValue, NoValue)]]

Combine ==
    /\ call.op = "new"
    /\ call' = [call EXCEPT !.op = "_combine_model_expected",
                            !.result = _combine_model_expected(call.model, call.expected)]
    /\ steps' = steps + 1
    /\ UNCHANGED <<impl, Site, parts, totals>>

CompareNext == Combine

CompareSpec == CompareInit /\ [][CompareNext]_vars

----------------------------------------------------------------------------
\* replay.py: run_management_from_json

\* The events replayed after the Start event.
MaxEvents == 3

\* A flag string of a species record: absent, or present and reading as
\* "ja" or not.
NoFlag == [has |-> FALSE, yes |-> FALSE]
Flag(yes) == [has |-> TRUE, yes |-> yes]
NoFlags == [gallrad_nagongang |-> NoFlag, nygallara |-> NoFlag]

FlagSets ==
    {NoFlags,
     [gallrad_nagongang |-> Flag(TRUE), nygallara |-> Flag(TRUE)],
     [gallrad_nagongang |-> Flag(FALSE), nygallara |-> NoFlag]}

\* One species record of an event: flags, extraction and "after" values.
SpeciesRecord(flags, ex_BA, ex_N, BA, N, age) ==
    [flags |-> flags,
     extraction |-> [BA_m2_ha |-> ex_BA, N_stems_ha |-> ex_N],
     after |-> [BA_m2_ha |-> BA, N_stems_ha |-> N],
     total_age |-> age]

StartRecords ==
    {SpeciesRecord(f, NoValue, NoValue, Val(R(20)), Val(R(1200)), Val(40)) :
        f \in {NoFlags, [gallrad_nagongang |-> Flag(TRUE), nygallara |-> Flag(TRUE)]}}

TillvaxtRecords ==
    {SpeciesRecord(f, NoValue, NoValue, Val(R(30)), Val(R(1100)), Val(45)) :
        f \in FlagSets}

GallringRecords ==
    {SpeciesRecord(f, ex[1], ex[2], a[1], a[2], a[3]) :
        f \in {NoFlags, [gallrad_nagongang |-> Flag(FALSE), nygallara |-> NoFlag]},
        ex \in {<<NoValue, NoValue>>, <<Val(R(5)), NoValue>>, <<NoValue, Val(R(100))>>},
        a \in {<<NoValue, NoValue, NoValue>>, <<Val(R(12)), Val(R(700)), Val(50)>>}}

\* _site_kwargs(json_obj) of a history on a site in region Central
ReplaySiteArgs ==
    [SiteDefaults EXCEPT !.latitude = Given(58), !.altitude = Given(100),
                         !.vegetation = Given(13), !.soil_moisture = Given(3),
                         !.H100_Pine = Given(26), !.H100_Spruce = Given(30),
                         !.region = RegionStr("Central")]

\* _apply_flag_state(site, flags) of the package replay; the root replay
\* reads no flags.
_apply_flag_state(im, site, flags) ==
    IF im = "root" THEN site
    ELSE [site EXCEPT
            !.thinned = IF flags.gallrad_nagongang.has
                        THEN flags.gallrad_nagongang.yes ELSE @,
            !.thinned_5y = IF flags.nygallara.has THEN flags.nygallara.yes ELSE @]

\* What a grow5 reads of the site's thinning history.
ThinningFlags(site) == [thinned |-> site.thinned, thinned_5y |-> site.thinned_5y]
NotComputed == [thinned |-> FALSE, thinned_5y |-> FALSE]

\* Variant that records the thinning but not that it is recent.
StaleGallringFlags(site) == [site EXCEPT !.thinned = TRUE]

\* After a Gallring event: Site.thinned = True, Site.thinned_5y = True
AfterGallringFlags(site) == [site EXCEPT !.thinned = TRUE, !.thinned_5y = TRUE]

\* After a Tillvaxt event: Site.thinned_5y = False
AfterTillvaxtFlags(site) == [site EXCEPT !.thinned_5y = FALSE]

\* _snapshot / _snapshot_single: the metrics read after the refresh
ModelMetrics(ps) ==
    Tup([i \in 1..Len(ps) |->
           [N |-> ps[i].stems, BA |-> ps[i].BA, QMD |-> ps[i].QMD,
            VOL |-> ps[i].VOL, age |-> ps[i].age]])

\* _expected_metrics(record)
_expected_metrics(record) ==
    [N |-> record.after.N_stems_ha, BA |-> record.after.BA_m2_ha,
     age |-> record.total_age]

\* _apply_gallring_event: the removal map of the record's extraction; the
\* basal area, else the stems at the cohort's current mean-tree area.
GallringRemovals(p, record) ==
    LET ex == record.extraction
        qmd == qmd_cm(p.BA, p.stems)
        ba_out == IF ex.BA_m2_ha.has THEN ex.BA_m2_ha.v
                  ELSE IF ex.N_stems_ha.has /\ RPos(qmd) THEN RMul(ex.N_stems_ha.v, qmd)
                  ELSE Zero
    IN IF ba_out # Zero THEN [sp \in {p.tradslag} |-> ba_out] ELSE NoRemovals

\* _sync_to_expected_state: BA, stems and age set to the recorded values
\* that are given.
_sync_to_expected_state(p, record) ==
    LET BA == IF record.after.BA_m2_ha.has THEN record.after.BA_m2_ha.v ELSE p.BA
        stems == IF record.after.N_stems_ha.has THEN record.after.N_stems_ha.v ELSE p.stems
    IN [p EXCEPT !.BA = BA, !.stems = stems,
                 !.age = IF record.total_age.has THEN record.total_age.v ELSE @,
                 !.QMD = qmd_cm(BA, stems)]

\* root _thin_to_match_after_state: BA and stems set to the recorded values
\* that are given; the age is left alone.
_thin_to_match_after_state(p, record) ==
    LET BA == IF record.after.BA_m2_ha.has THEN record.after.BA_m2_ha.v ELSE p.BA
        stems == IF record.after.N_stems_ha.has THEN record.after.N_stems_ha.v ELSE p.stems
    IN [p EXCEPT !.BA = BA, !.stems = stems, !.QMD = qmd_cm(BA, stems)]

\* What the regressions return in a replayed growth period: crowding
\* within its range and an increment that is not negligible.
ReplayGrowth == {g \in GrowthSet : g.BAI5 = R(2) /\ g.crowd # One}

\* The history kept of the replay: the last event, its record, the parts
\* it started from, the flags its grow5 was computed with, the snapshots
\* returned so far, the Gallring events so far, the Tillvaxt events since
\* the last of them, and whether a record so far carried flags.
ReplayCall(op, record, start, computed_with, snapshots, thinnings, growths, overridden) ==
    [op |-> op, record |-> record, start |-> start, computed_with |-> computed_with,
     snapshots |-> snapshots, thinnings |-> thinnings, growths |-> growths,
     overridden |-> overridden, error |-> "none"]

\* _build_species_stands / _build_stand_from_json: the site, with the
\* Start record's flags applied, and a stand of the Start record's cohort.
ReplayInit ==
    /\ impl \in {"root", "pkg"}
    /\ steps = 0
    /\ \E record \in StartRecords :
       \E made \in {<<register_stand(EkoStandPart(Bok, record.after.BA_m2_ha.v,
                                                  record.after.N_stems_ha.v,
                                                  record.total_age.v))>>} :
       \E done \in {RefreshParts(impl, "Central", made, UnsetTotals)} :
          /\ Site = _apply_flag_state(impl, EkoStandSite(ReplaySiteArgs), record.flags)
          /\ parts = done
          /\ totals = RefreshTotals(impl, "Central", done, UnsetTotals)
          /\ call = ReplayCall("build", record, made, NotComputed, <<>>, 0, 0,
                               impl = "pkg" /\ record.flags # NoFlags)

\* The event at index 0: a snapshot and nothing else.
StartEvent ==
    /\ call.op = "build"
    /\ \E snap \in {RefreshParts(impl, Site.region, parts, totals)} :
          /\ parts' = snap
          /\ totals' = RefreshTotals(impl, Site.region, snap, totals)
          /\ call' = [call EXCEPT !.op = "Start", !.start = parts,
                         !.snapshots = <<[event |-> "Start", model |-> ModelMetrics(snap),
                                          expected |-> _expected_metrics(call.record)]>>]
    /\ UNCHANGED <<impl, Site, steps>>

\* A Tillvaxt event: the record's flags applied (package), grow5 with
\* mortality, thinned_5y cleared, the snapshot taken and appended.
TillvaxtEvent ==
    /\ call.op \notin {"build", "new"}
    /\ steps < MaxEvents
    /\ \E record \in TillvaxtRecords, g \in ReplayGrowth :
       \E site \in {_apply_flag_state(impl, Site, record.flags)} :
       \E start \in {RefreshParts(impl, site.region, parts, totals)} :
       \E committed \in {GrowCommit(impl, start, DefaultYears, TRUE,
                                     <<[crowd |-> g.crowd, other |-> g.other]>>,
                                     <<g.BAI5>>)} :
       \E done \in {RefreshParts(impl, site.region, committed, StandTotals(start))} :
       \E grown \in {GrowBookkeeping(impl, site.region, start, DefaultYears,
                                      <<g.BAI5>>, done)} :
       \E snap \in {RefreshParts(impl, site.region, grown, StandTotals(done))} :
          /\ Site' = AfterTillvaxtFlags(site)
          /\ parts' = snap
          /\ totals' = StandTotals(snap)
          /\ call' = ReplayCall("Tillvaxt", record, parts, ThinningFlags(site),
                                Append(call.snapshots,
                                       [event |-> "Tillvaxt", model |-> ModelMetrics(snap),
                                        expected |-> _expected_metrics(record)]),
                                call.thinnings, call.growths + 1,
                                call.overridden \/ (impl = "pkg" /\ record.flags # NoFlags))
    /\ steps' = steps + 1
    /\ UNCHANGED impl

\* A Gallring event. Package: the record's flags applied, the extraction
\* thinned, both flags set, the snapshot taken and appended, and then the
\* stand set to the recorded values. Root: the stand set to the recorded
\* values, both flags set, and then the snapshot taken and appended.
GallringEvent ==
    /\ call.op \notin {"build", "new"}
    /\ steps < MaxEvents
    /\ \E record \in GallringRecords :
       \E site \in {_apply_flag_state(impl, Site, record.flags)} :
       \E cut \in {IF impl = "pkg"
                    THEN ThinParts(parts, GallringRemovals(parts[1], record))
                    ELSE Tup([i \in 1..Len(parts) |->
                                _thin_to_match_after_state(parts[i], record)])} :
       \E snap \in {RefreshParts(impl, site.region,
                                  RefreshParts(impl, site.region, cut, totals),
                                  StandTotals(cut))} :
       \E synced \in {IF impl = "pkg"
                       THEN RefreshParts(impl, site.region,
                                         Tup([i \in 1..Len(snap) |->
                                                _sync_to_expected_state(snap[i], record)]),
                                         StandTotals(snap))
                       ELSE snap} :
          /\ Site' = AfterGallringFlags(site)
          /\ parts' = synced
          /\ totals' = StandTotals(synced)
          /\ call' = ReplayCall("Gallring", record, parts, NotComputed,
                                Append(call.snapshots,
                                       [event |-> "Gallring", model |-> ModelMetrics(snap),
                                        expected |-> _expected_metrics(record)]),
                                call.thinnings + 1, 0,
                                call.overridden \/ (impl = "pkg" /\ record.flags # NoFlags))
    /\ steps' = steps + 1
    /\ UNCHANGED impl

\* An event of any other type: the record's flags applied (package) and
\* the snapshot taken and appended.
OtherEvent ==
    /\ call.op \notin {"build", "new"}
    /\ steps < MaxEvents
    /\ \E record \in StartRecords :
       \E site \in {_apply_flag_state(impl, Site, record.flags)} :
       \E snap \in {RefreshParts(impl, site.region, parts, totals)} :
          /\ Site' = site
          /\ parts' = snap
          /\ totals' = StandTotals(snap)
          /\ call' = ReplayCall("Other", record, parts, NotComputed,
                                Append(call.snapshots,
                                       [event |-> "Other", model |-> ModelMetrics(snap),
                                        expected |-> _expected_metrics(record)]),
                                call.thinnings, call.growths,
                                call.overridden \/ (impl = "pkg" /\ record.flags # NoFlags))
    /\ steps' = steps + 1
    /\ UNCHANGED impl

ReplayNext == StartEvent \/ TillvaxtEvent \/ GallringEvent \/ OtherEvent

ReplaySpec == ReplayInit /\ [][ReplayNext]_vars

----------------------------------------------------------------------------
\* Properties

Cohorts == 1..Len(parts)

\* The cohort fields at the start of the call that produced the state.
BA0(i) == call.start[i].BA
N0(i) == call.start[i].stems
QMD0(i) == qmd_cm(call.start[i].BA, call.start[i].stems)
Q(i) == RAdd(call.mort[i].crowd, call.mort[i].other)

\* The call that produced the state returned (it raised nothing).
Returned == call.error = "none"

GrewWithMortality == call.op = "grow" /\ call.apply_mortality /\ Returned
GrewWithoutMortality == call.op = "grow" /\ ~call.apply_mortality /\ Returned

\* C1: after construction and after every grow or thin call, every cohort's
\* stored QMD is qmd(BA, stems) of its current BA and stems (0 when BA <= 0
\* or stems <= 0).
C1_QMDNeverStale ==
    \A i \in Cohorts : parts[i].QMD = qmd_cm(parts[i].BA, parts[i].stems)

\* A call changed a cohort's BA and stems and with them its QMD.
C1_Witness ==
    /\ call.op \in {"thin", "grow"}
    /\ \E i \in Cohorts : /\ parts[i].BA # BA0(i)
                          /\ parts[i].stems # N0(i)
                          /\ parts[i].QMD # call.start[i].QMD

\* C2: after construction and after every call the totals a caller reads,
\* stored or through the StandBA / StandStems properties, are the sums over
\* the current cohorts.
C2_TotalsAreSums ==
    /\ totals.StandBA = safe_sum(SeqBA(parts))
    /\ totals.StandStems = safe_sum(SeqStems(parts))
    /\ totals.StandVOL = SeqVOL(parts)
    /\ _get_StandBA(totals, parts) = safe_sum(SeqBA(parts))
    /\ _get_StandStems(totals, parts) = safe_sum(SeqStems(parts))

\* A call on a two-cohort stand changed both totals.
C2_Witness ==
    /\ call.op \in {"thin", "grow"}
    /\ Len(parts) = 2
    /\ totals.StandBA # safe_sum(SeqBA(call.start))
    /\ totals.StandStems # safe_sum(SeqStems(call.start))

\* C3: grow with mortality commits, for every cohort,
\* BA = max(0, BA0 + increment - (crowding + other) * BA0).
C3_MortalityFromStartBA ==
    GrewWithMortality =>
        \A i \in Cohorts :
            parts[i].BA = RMax(Zero, RSub(RAdd(BA0(i), call.bai[i]), RMul(Q(i), BA0(i))))

\* C4 as stated: with a positive increment and mortality enabled the
\* committed BA is (1 - q) * (BA0 + increment), and >= 0.
C4_AsStated ==
    GrewWithMortality =>
        \A i \in Cohorts :
            RPos(call.bai[i]) =>
                /\ parts[i].BA = RMul(RSub(One, Q(i)), RAdd(BA0(i), call.bai[i]))
                /\ RNonNeg(parts[i].BA)

\* C4 amended: for a cohort with BA0 >= 0, a positive increment, mortality
\* enabled and a total mortality fraction q <= 1, the committed BA is
\* (1 - q) * BA0 + increment (the increment is not reduced), and >= 0.
C4_IncrementNotReduced ==
    GrewWithMortality =>
        \A i \in Cohorts :
            (RNonNeg(BA0(i)) /\ RPos(call.bai[i]) /\ RLe(Q(i), One)) =>
                /\ parts[i].BA = RAdd(RMul(RSub(One, Q(i)), BA0(i)), call.bai[i])
                /\ RNonNeg(parts[i].BA)

\* A grow with mortality where a cohort lost BA to mortality and gained its
\* increment.
C4_Witness ==
    /\ GrewWithMortality
    /\ \E i \in Cohorts : /\ RPos(BA0(i)) /\ RPos(call.bai[i])
                          /\ RPos(Q(i)) /\ RLe(Q(i), One)
                          /\ parts[i].BA # BA0(i)
                          /\ parts[i].BA # RAdd(BA0(i), call.bai[i])

\* C5: every grow, with or without mortality, advances every cohort's age by
\* exactly years; thin changes no age.
C5_AgeAdvances ==
    /\ (call.op = "grow" /\ Returned) =>
          \A i \in Cohorts : parts[i].age = call.start[i].age + call.years
    /\ call.op = "thin" =>
          \A i \in Cohorts : parts[i].age = call.start[i].age

\* C6: grow with mortality removes N0 * (crowding / 0.81 + other) stems from
\* a cohort with a positive diameter, each fraction at its assumed diameter,
\* and commits max(0, N0 - stems removed).
C6_StemsAtAssumedDiameters ==
    GrewWithMortality =>
        \A i \in Cohorts :
            RPos(QMD0(i)) =>
                parts[i].stems =
                    RMax(Zero,
                         RSub(N0(i),
                              RAdd(RDiv(RMul(call.mort[i].crowd, BA0(i)),
                                        CrowdDiameter(QMD0(i))),
                                   RDiv(RMul(call.mort[i].other, BA0(i)), QMD0(i)))))

\* C7: no grow and no thin increases a cohort's stem count.
C7_StemsNonIncreasing ==
    call.op \in {"thin", "grow"} =>
        \A i \in Cohorts : RLe(parts[i].stems, N0(i))

\* C8: from BA0 >= 0 and stems >= 0, with both mortality fractions in
\* [0, 1], grow commits BA >= 0 and stems >= 0.
C8_NonNegativeAfterGrow ==
    (call.op = "grow" /\ Returned) =>
        \A i \in Cohorts :
            (/\ RNonNeg(BA0(i)) /\ RNonNeg(N0(i))
             /\ RNonNeg(call.mort[i].crowd) /\ RLe(call.mort[i].crowd, One)
             /\ RNonNeg(call.mort[i].other) /\ RLe(call.mort[i].other, One)) =>
                RNonNeg(parts[i].BA) /\ RNonNeg(parts[i].stems)

\* C9: grow without mortality commits BA0 + increment and the start stems.
C9_GrowthWithoutMortality ==
    GrewWithoutMortality =>
        \A i \in Cohorts : /\ parts[i].BA = RAdd(BA0(i), call.bai[i])
                           /\ parts[i].stems = N0(i)

\* C10: thin leaves every cohort named in the removal map with
\* BA = BA0 - min(max(r, 0), BA0), whatever the cohort's state.
C10_ThinRemovesClampedRequest ==
    call.op = "thin" =>
        \A i \in Cohorts :
            parts[i].tradslag \in DOMAIN call.removals =>
                parts[i].BA =
                    RSub(BA0(i),
                         RMin(RMax(call.removals[parts[i].tradslag], Zero), BA0(i)))

\* The removal thin() was asked for cohort i: 0 when its species is no key.
Asked(i) ==
    IF parts[i].tradslag \in DOMAIN call.removals
    THEN call.removals[parts[i].tradslag] ELSE Zero

\* C11: thin never leaves a cohort with negative BA or negative stems,
\* whatever the request and whatever calls came before.
C11_ThinNonNegative ==
    call.op = "thin" =>
        \A i \in Cohorts : RNonNeg(parts[i].BA) /\ RNonNeg(parts[i].stems)

\* C12: thin leaves BA, stems and age of a cohort unchanged when its species
\* is no key of the removal map or its requested removal is not positive.
C12_ThinFrame ==
    call.op = "thin" =>
        \A i \in Cohorts :
            ~RPos(Asked(i)) =>
                /\ parts[i].BA = BA0(i)
                /\ parts[i].stems = N0(i)
                /\ parts[i].age = call.start[i].age

\* A thin of a two-cohort stand that cut one cohort and left alone the other,
\* which was no key of the map or was asked a negative amount.
C12_Witness ==
    /\ call.op = "thin"
    /\ \E i, j \in Cohorts : /\ RPos(Asked(i)) /\ RLt(parts[i].BA, BA0(i))
                             /\ ~RPos(Asked(j)) /\ RPos(BA0(j))

\* C13: for a cohort with BA > 0, stems > 0 and a removal 0 < r < BA, thin
\* removes r / (pi * (QMD/200)^2) stems, and the QMD recomputed from the BA
\* and stems after the call is the QMD before it.
C13_ThinConstantQMD ==
    call.op = "thin" =>
        \A i \in Cohorts :
            (RPos(BA0(i)) /\ RPos(N0(i)) /\ RPos(Asked(i)) /\ RLt(Asked(i), BA0(i))) =>
                /\ RSub(N0(i), parts[i].stems) = RDiv(Asked(i), QMD0(i))
                /\ qmd_cm(parts[i].BA, parts[i].stems) = QMD0(i)
                /\ parts[i].QMD = call.start[i].QMD

\* A thin that took part of a cohort's BA and some of its stems.
C13_Witness ==
    /\ call.op = "thin"
    /\ \E i \in Cohorts : /\ RPos(N0(i)) /\ RPos(Asked(i)) /\ RLt(Asked(i), BA0(i))
                          /\ RLt(parts[i].stems, N0(i)) /\ RPos(parts[i].stems)

\* C14: after every refresh each cohort's BAOtherSpecies is the sum of the
\* current BA of the other cohorts: the other cohort's BA in a two-cohort
\* stand, 0 in a one-cohort stand.
C14_BAOtherSpecies ==
    /\ \A i \in Cohorts : parts[i].BAOtherSpecies = safe_sum(Others(SeqBA(parts), i))
    /\ Len(parts) = 2 => /\ parts[1].BAOtherSpecies = parts[2].BA
                         /\ parts[2].BAOtherSpecies = parts[1].BA
    /\ Len(parts) = 1 => parts[1].BAOtherSpecies = Zero

\* A call changed the BA of both cohorts of a two-cohort stand.
C14_Witness ==
    /\ call.op \in {"thin", "grow"}
    /\ Len(parts) = 2
    /\ parts[1].BA # BA0(1) /\ parts[2].BA # BA0(2)
    /\ RPos(parts[1].BAOtherSpecies) /\ parts[1].BAOtherSpecies # parts[1].BA

\* C15: in a stand of several cohorts, whenever the BA of the other cohorts
\* is positive a cohort's HK is not 0.
C15_HKZeroOnlyWithoutOthers ==
    Len(parts) > 1 =>
        \A i \in Cohorts : RPos(parts[i].BAOtherSpecies) => ~HKIsZero(parts[i].HK)

\* C16: a cohort with BA <= 0 or stems <= 0 has QMD = 0 and a volume of
\* exactly 0 after every refresh.
C16_DegenerateVolumeZero ==
    \A i \in Cohorts :
        (RLe(parts[i].BA, Zero) \/ RLe(parts[i].stems, Zero)) =>
            parts[i].QMD = Zero /\ parts[i].VOL = ZeroVolume

\* C19: a stand is never constructed from an empty cohort list: whenever
\* EkoStand.__init__ has returned without an error, the stand has at least
\* one cohort.
C19_EmptyStandRejected ==
    (call.op = "init" /\ call.error = "none") => Len(parts) > 0

\* C17: both fractions a getMortality call returns, the crowding fraction
\* and the other-causes fraction, lie in [0, 1], for every species, region,
\* cohort state and period length.
C17_MortalityFractionsInUnitInterval ==
    (call.op = "getMortality" /\ call.error = "none") =>
        /\ RLe(Zero, call.result[1].crowd) /\ RLe(call.result[1].crowd, One)
        /\ RLe(Zero, call.result[1].other) /\ RLe(call.result[1].other, One)

\* A very large cohort whose regression exceeds 1 and is returned as 1.
C17_Witness ==
    /\ call.op = "getMortality" /\ call.error = "none"
    /\ call.start[1].BA = R(250)
    /\ call.result[1].crowd = One
    /\ RPos(call.result[1].other)

\* C18: getMortality, getBAI5 and getVolume called on a cohort no stand
\* holds fail with ValueError and change no field of the cohort; called on
\* a cohort a stand was constructed with, they do not raise that error.
C18_UnattachedFormulaFails ==
    call.op \in {"getMortality", "getBAI5", "getVolume"} =>
        /\ ~call.start[1].stand => (call.error = "ValueError" /\ parts = call.start)
        /\ call.start[1].stand => call.error # "ValueError"

C18_Witness ==
    /\ call.op = "getBAI5"
    /\ ~call.start[1].stand
    /\ call.error = "ValueError"
    /\ parts = call.start

\* C20: a site constructed with neither H100 value (under either name)
\* fails with ValueError; with exactly one, the construction succeeds and
\* the other value is the Leijon conversion of it, which is not zero; with
\* both, both are stored as given.
SuppliedSpruce ==
    IF Site.args.h100_gran # None THEN Site.args.h100_gran ELSE Site.args.H100_Spruce

SuppliedPine ==
    IF Site.args.h100_tall # None THEN Site.args.h100_tall ELSE Site.args.H100_Pine

C20_SiteH100 ==
    /\ (SuppliedSpruce = None /\ SuppliedPine = None) => Site.error = "ValueError"
    /\ (SuppliedSpruce # None /\ SuppliedPine = None) =>
          /\ Site.error = "none"
          /\ Site.H100_Spruce = SuppliedSpruce
          /\ Site.H100_Pine = Leijon_Spruce_to_Pine(SuppliedSpruce)
    /\ (SuppliedSpruce = None /\ SuppliedPine # None) =>
          /\ Site.error = "none"
          /\ Site.H100_Pine = SuppliedPine
          /\ Site.H100_Spruce = Leijon_Pine_to_Spruce(SuppliedPine)
    /\ (SuppliedSpruce # None /\ SuppliedPine # None) =>
          /\ Site.error = "none"
          /\ Site.H100_Spruce = SuppliedSpruce
          /\ Site.H100_Pine = SuppliedPine

\* C21: when the only site index supplied is outside the material of the
\* Leijon conversion (below 8 m, above 30 m for pine, above 33 m for
\* spruce), the site is constructed, a warning is emitted and both H100
\* values are set.
C21_OutOfRangeWarnsNotFails ==
    /\ (SuppliedSpruce # None /\ SuppliedPine = None /\ LeijonWarns(SuppliedSpruce, 33)) =>
          /\ Site.error = "none"
          /\ Site.warnings # {}
          /\ Site.H100_Spruce # None /\ Site.H100_Pine # None
    /\ (SuppliedSpruce = None /\ SuppliedPine # None /\ LeijonWarns(SuppliedPine, 30)) =>
          /\ Site.error = "none"
          /\ Site.warnings # {}
          /\ Site.H100_Spruce # None /\ Site.H100_Pine # None

\* The increment a cohort holds for reporting after a grow(): its
\* volume_increment, or its gross_volume_increment where the former was
\* never assigned.
RecordedIncrement(i) ==
    IF parts[i].volume_increment.set THEN parts[i].volume_increment
    ELSE parts[i].gross_volume_increment

\* C22: after every grow call that returned, every cohort holds a recorded
\* volume increment whose terms are the cohort's committed (post-mortality)
\* volume and its start-of-period volume.
C22_NetVolumeIncrement ==
    call.op = "grow" /\ Returned =>
        \A i \in Cohorts :
            /\ RecordedIncrement(i).set
            /\ RecordedIncrement(i).end = parts[i].VOL
            /\ RecordedIncrement(i).start = parts[i].VOL0

\* The cohort as each grow() reads it after its first refresh.
StartPart(i) == [call.start[i] EXCEPT !.QMD = QMD0(i)]

\* The BA, stems and age one implementation commits for cohort i from the
\* start-of-period state and the regressions' values of the call.
CommittedBy(im, i) ==
    LET p == GrowPart(im, StartPart(i), call.years, TRUE, call.mort[i], call.bai[i])
    IN <<p.BA, p.stems, p.age>>

\* C27: from the same start-of-period state, mortality fractions and
\* increments, with mortality enabled, the two grow() implementations
\* commit the same BA, stems and age for every cohort.
C27_GrowImplementationsAgree ==
    GrewWithMortality =>
        \A i \in Cohorts : CommittedBy("root", i) = CommittedBy("pkg", i)

\* The fields the refresh derives, and the stand totals.
DerivedMetrics(ps, tot) ==
    <<Tup([i \in 1..Len(ps) |->
             <<ps[i].QMD, ps[i].BAOtherSpecies, ps[i].HK, ps[i].VOL>>]), tot>>

\* C28: a refresh run on a state reached by construction, grow or thin,
\* with nothing changed in between, leaves every cohort's QMD,
\* BAOtherSpecies, HK and VOL and the stand totals as they were.
C28_RefreshIdempotent ==
    [][Refresh /\ call'.error = "none" =>
          DerivedMetrics(parts', totals') = DerivedMetrics(parts, totals)]_vars

\* The list in the opposite order.
Reversed(seq) == Tup([i \in 1..Len(seq) |-> seq[Len(seq) + 1 - i]])

\* What a cohort's regressions read when grow() is called on the
\* start-of-period state: its own BA, stems, age and diameter and the
\* competition of the other cohorts, all as the call found them.
StartView(i) ==
    LET BA_other == safe_sum(Others(SeqBA(call.start), i))
        N_other == safe_sum(Others(SeqStems(call.start), i))
    IN [tradslag |-> call.start[i].tradslag, BA |-> BA0(i), stems |-> N0(i),
        age |-> call.start[i].age, QMD |-> QMD0(i), BAOtherSpecies |-> BA_other,
        HK |-> HKOf(qmd_cm(BA_other, N_other), QMD0(i), BA_other)]

\* What the same cohort's regressions read when the stand's list is in the
\* opposite order.
ReversedView(i) ==
    LET n == Len(call.start)
        start == _competition_metrics(Reversed(call.start))
    IN RegressionView(LoopState(start, Reversed(call.bai), n + 1 - i)[n + 1 - i])

\* C24: in a grow call that returned, the regressions of every cohort read
\* the start-of-period state (no BA, stems, QMD, age or competition term
\* updated in the call), they read the same with the list reversed, and
\* the cohort's committed BA, stems and age follow from its own
\* start-of-period fields and its own regression values.
C24_StartOfPeriodState ==
    call.op = "grow" /\ Returned =>
        \A i \in Cohorts :
            /\ call.seen[i] = StartView(i)
            /\ ReversedView(i) = StartView(i)
            /\ LET p == GrowPart(impl, StartPart(i), call.years, call.apply_mortality,
                                 call.mort[i], call.bai[i])
               IN <<parts[i].BA, parts[i].stems, parts[i].age>> = <<p.BA, p.stems, p.age>>

\* A grow with mortality of two cohorts returned, and the first cohort's
\* BA is no longer what the second cohort's regressions read of it.
C24_Witness ==
    /\ GrewWithMortality
    /\ Len(parts) = 2
    /\ parts[1].BA # BA0(1)
    /\ call.seen[2].BAOtherSpecies = BA0(1)
    /\ parts[2].BAOtherSpecies # BA0(1)

\* The metrics of the last comparison with a model and an expected value.
Compared == {key \in {"N", "BA", "QMD", "VOL"} :
                call.model[key].has /\ call.expected[key].has}

\* C23 as stated: the delta of every such metric is the reported model
\* value minus the expected value and is at most the tolerance 0.1 in
\* absolute value; with a value missing the delta is None.
C23_AsStated ==
    call.op = "_combine_model_expected" =>
        \A key \in {"N", "BA", "QMD", "VOL"} :
            LET r == call.result[key]
            IN IF key \in Compared
               THEN /\ r.delta = Val(FSub(r.model.v, call.expected[key].v))
                    /\ RLe(RAbs(r.delta.v), ABSOLUTE_TOLERANCES(key).v)
               ELSE r.delta = NoValue

\* C23, amended: the delta is the reported model value minus the expected
\* value, None with a value missing, and its absolute value exceeds the
\* tolerance by no more than the rounding of expected +- tolerance: one
\* unit in the last place of expected + tolerance.
C23_DeltaWithinRoundedTolerance ==
    call.op = "_combine_model_expected" =>
        \A key \in {"N", "BA", "QMD", "VOL"} :
            LET r == call.result[key]
                tol == ABSOLUTE_TOLERANCES(key).v
            IN IF key \in Compared
               THEN /\ r.delta = Val(FSub(r.model.v, call.expected[key].v))
                    /\ RLe(RAbs(r.delta.v),
                           RAdd(tol, Ulp(RAdd(call.expected[key].v, tol))))
               ELSE r.delta = NoValue

\* A comparison that adjusted a metric beyond the tolerance.
C23_Witness ==
    /\ call.op = "_combine_model_expected"
    /\ \E key \in Compared : call.result[key].adjusted

\* C25: in a replay, the site has thinned and thinned_5y set after every
\* Gallring event and thinned_5y cleared after every Tillvaxt event; and,
\* no record so far carrying flags, a growth period is computed with
\* thinned_5y set exactly when it is the first one after a thinning, and
\* none before the first thinning is computed with thinned set.
C25_ThinningFlagsFollowHistory ==
    /\ call.op = "Gallring" => Site.thinned /\ Site.thinned_5y
    /\ call.op = "Tillvaxt" => ~Site.thinned_5y
    /\ call.op = "Tillvaxt" /\ ~call.overridden =>
          /\ call.computed_with.thinned_5y = (call.thinnings > 0 /\ call.growths = 1)
          /\ (call.thinnings = 0 => ~call.computed_with.thinned)

\* The second growth period after a thinning, no record carrying flags:
\* computed with thinned set and thinned_5y cleared.
C25_Witness ==
    /\ call.op = "Tillvaxt"
    /\ ~call.overridden
    /\ call.thinnings > 0
    /\ call.growths = 2
    /\ call.computed_with = [thinned |-> TRUE, thinned_5y |-> FALSE]

\* BA, stems and age of the stand's cohorts.
NetState(ps) == Tup([i \in 1..Len(ps) |-> <<ps[i].BA, ps[i].stems, ps[i].age>>])

\* BA, stems and age of the cohorts in the event's snapshot.
SnapshotState ==
    LET m == call.snapshots[Len(call.snapshots)].model
    IN Tup([i \in 1..Len(m) |-> <<m[i].BA, m[i].N, m[i].age>>])

\* C26: in a replay, after a Tillvaxt event the stand is in the state the
\* model committed and the snapshot shows; after a Gallring event the
\* snapshot shows the model's own thinning of the state the event started
\* from, and the stand holds the recorded values where the record gives
\* them.
C26_SyncOnlyAfterGallringSnapshot ==
    /\ call.op = "Tillvaxt" => NetState(parts) = SnapshotState
    /\ call.op = "Gallring" =>
          /\ SnapshotState
                = NetState(ThinParts(call.start,
                                     GallringRemovals(call.start[1], call.record)))
          /\ NetState(parts)
                = Tup([i \in 1..Len(parts) |->
                         LET p == _sync_to_expected_state(
                                      [call.start[i] EXCEPT
                                          !.BA = SnapshotState[i][1],
                                          !.stems = SnapshotState[i][2],
                                          !.age = SnapshotState[i][3]],
                                      call.record)
                         IN <<p.BA, p.stems, p.age>>])

\* C29: the region of a constructed site is North, Central or South,
\* whatever was passed as the region argument.
C29_RegionIsOneOfThree ==
    Site.error = "none" => Site.region \in Regions

\* The value an attribute takes when the Swedish argument is preferred:
\* the Swedish argument if it was provided, the English one otherwise.
Preferred(swedish, english) == IF swedish # None THEN swedish ELSE english

\* The plain value of a code argument: the .value of an enum member.
CodeOf(arg) == IF arg.kind = "enum" THEN Given(arg.value) ELSE arg

\* C30: every site attribute with an English and a Swedish argument takes
\* the Swedish argument's value when it is provided, the English one
\* otherwise: latitude, altitude, the vegetation code (seen in the field
\* layer flags and vegcode), the soil moisture code (seen in DrySoil and
\* WetSoil), the two site indices, fertilised, thinned, thinned_5y, TAX77.
C30_SwedishArgumentPreferred ==
    Site.error = "none" =>
      LET kw == Site.args
          lat == Preferred(kw.latitud, kw.latitude).value
          veg == FieldLayerAndVegcode(CodeOf(Preferred(kw.vegetation_, kw.vegetation)), lat)
          soil == IF kw.markfuktighet # None THEN CodeOf(kw.markfuktighet)
                  ELSE kw.soil_moisture
      IN /\ Site.latitude = lat
         /\ Site.altitude = Preferred(kw.hojd_moh, kw.altitude).value
         /\ Site.Bilberry_or_Cowberry = veg.Bilberry_or_Cowberry
         /\ Site.HerbsGrassesNoFieldLayer = veg.HerbsGrassesNoFieldLayer
         /\ Site.vegcode = veg.vegcode
         /\ Site.DrySoil = (soil = Given(1))
         /\ Site.WetSoil = (soil = Given(5))
         /\ Site.fertilised = (Preferred(kw.godslad, kw.fertilised).value # 0)
         /\ Site.thinned = (Preferred(kw.gallrad, kw.thinned).value # 0)
         /\ Site.thinned_5y = (Preferred(kw.gallrad_senaste_5ar, kw.thinned_5y).value # 0)
         /\ Site.TAX77 = (Preferred(kw.tax77, kw.TAX77).value # 0)
         /\ (kw.h100_gran # None => Site.H100_Spruce = kw.h100_gran)
         /\ (kw.h100_gran = None /\ kw.H100_Spruce # None => Site.H100_Spruce = kw.H100_Spruce)
         /\ (kw.h100_tall # None => Site.H100_Pine = kw.h100_tall)
         /\ (kw.h100_tall = None /\ kw.H100_Pine # None => Site.H100_Pine = kw.H100_Pine)

====
